---- MODULE Spec2Model ----
(***************************************************************************)
(* Runfiles lookup library (tools/runfiles/runfiles.rs).                   *)
(*                                                                         *)
(* Strings and paths are sequences of one-character strings, so that the   *)
(* path operations of std::path (components, join, parent, file_name) and  *)
(* the line/field splitting of the loaders are computed, not assumed.      *)
(***************************************************************************)
EXTENDS Integers, Sequences, FiniteSets, TLC

VARIABLES
    pc,          \* position of the running call
    env,         \* the process environment: variable name -> value or None
    fs,          \* the filesystem: normalised absolute path -> node
    argv0,       \* std::env::args().next()
    cwd,         \* env::current_dir()
    exe,         \* std::env::current_exe()
    binary_path, \* find_runfiles_dir: the candidate of the discovery loop
    chain,       \* history: the candidates the discovery loop has examined
    consulted,   \* history: what find_runfiles_dir has looked at so far
    found,       \* the io::Result of find_runfiles_dir
    bootstrap,   \* create: the bootstrap Runfiles (or the construction failure)
    runfiles,    \* the Runfiles object rlocation is called on
    manifest_content,      \* the text of the manifest file
    repo_mapping_content,  \* the text of the _repo_mapping file
    query,       \* rlocation: the path asked for
    final_path,  \* rlocation: the path handed to the mode (line 167)
    outcome      \* the result of the call under study

vars == <<pc, env, fs, argv0, cwd, exe, binary_path, chain, consulted, found,
          bootstrap, runfiles, manifest_content, repo_mapping_content, query,
          final_path, outcome>>

None == [tag |-> "None", val |-> <<>>, why |-> ""]
Some(v) == [tag |-> "Some", val |-> v, why |-> ""]
Ok(v) == [tag |-> "Ok", val |-> v, why |-> ""]
Err(why) == [tag |-> "Err", val |-> <<>>, why |-> why]
Panic(why) == [tag |-> "Panic", val |-> <<>>, why |-> why]
Pending == [tag |-> "Pending", val |-> <<>>, why |-> ""]

-----------------------------------------------------------------------------
(* Text *)

\* index of the first c in s, 0 when there is none
IndexOf(s, c) ==
    IF \E i \in 1..Len(s) : s[i] = c
    THEN CHOOSE i \in 1..Len(s) : s[i] = c /\ \A j \in 1..(i - 1) : s[j] # c
    ELSE 0

\* index of the last c in s, 0 when there is none
LastIndexOf(s, c) ==
    IF \E i \in 1..Len(s) : s[i] = c
    THEN CHOOSE i \in 1..Len(s) : s[i] = c /\ \A j \in (i + 1)..Len(s) : s[j] # c
    ELSE 0

Drop(s, n) == SubSeq(s, n + 1, Len(s))
Take(s, n) == SubSeq(s, 1, n)

\* str::split(c): the pieces between occurrences of c (always at least one)
RECURSIVE Split(_, _)
Split(s, c) ==
    LET i == IndexOf(s, c)
    IN  IF i = 0 THEN <<s>> ELSE <<Take(s, i - 1)>> \o Split(Drop(s, i), c)

\* str::splitn(n, c): at most n pieces, the last one holding the rest
RECURSIVE SplitN(_, _, _)
SplitN(s, n, c) ==
    LET i == IndexOf(s, c)
    IN  IF n = 0 THEN <<>>
        ELSE IF n = 1 \/ i = 0 THEN <<s>>
        ELSE <<Take(s, i - 1)>> \o SplitN(Drop(s, i), n - 1, c)

\* str::split_once(c)
SplitOnce(s, c) ==
    LET i == IndexOf(s, c)
    IN  IF i = 0 THEN None ELSE Some(<<Take(s, i - 1), Drop(s, i)>>)

\* str::lines(): split at "\n"; a final empty piece is not a line
Lines(s) ==
    LET pieces == Split(s, "\n")
    IN  IF pieces[Len(pieces)] = <<>> THEN Take(pieces, Len(pieces) - 1) ELSE pieces

EndsWith(s, suffix) ==
    Len(s) >= Len(suffix) /\ Drop(s, Len(s) - Len(suffix)) = suffix

StartsWith(s, prefix) ==
    Len(s) >= Len(prefix) /\ Take(s, Len(prefix)) = prefix

\* the pieces joined with c between them
RECURSIVE JoinWith(_, _)
JoinWith(pieces, c) ==
    IF pieces = <<>> THEN <<>>
    ELSE IF Len(pieces) = 1 THEN pieces[1]
    ELSE pieces[1] \o <<c>> \o JoinWith(Tail(pieces), c)

-----------------------------------------------------------------------------
(* std::path on Unix *)

SEP == "/"
DOT == <<".">>
DOTDOT == <<".", ".">>
ROOT == <<"/">>

HasRoot(p) == Len(p) > 0 /\ p[1] = SEP

\* Path::is_absolute
IsAbsolute(p) == HasRoot(p)

\* Components::include_cur_dir: a relative path that starts with the segment "."
IncludeCurDir(p) ==
    /\ ~HasRoot(p)
    /\ Len(p) > 0 /\ p[1] = "."
    /\ (Len(p) = 1 \/ p[2] = SEP)

\* Path::components: the root, a leading ".", then the segments that are
\* neither empty nor "."
RECURSIVE BodyComponents(_)
BodyComponents(segs) ==
    IF segs = <<>> THEN <<>>
    ELSE IF Head(segs) = <<>> \/ Head(segs) = DOT THEN BodyComponents(Tail(segs))
    ELSE <<Head(segs)>> \o BodyComponents(Tail(segs))

Components(p) ==
    IF HasRoot(p) THEN <<ROOT>> \o BodyComponents(Split(p, SEP))
    ELSE IF IncludeCurDir(p) THEN <<DOT>> \o BodyComponents(Split(p, SEP))
    ELSE BodyComponents(Split(p, SEP))

\* PartialEq for Path: component-wise
PathEq(p, q) == Components(p) = Components(q)

\* Components::trim_left: drop leading separators and "." segments
RECURSIVE TrimLeft(_)
TrimLeft(s) ==
    IF s = <<>> THEN s
    ELSE LET i == IndexOf(s, SEP)
             comp == IF i = 0 THEN s ELSE Take(s, i - 1)
             size == IF i = 0 THEN Len(s) ELSE i
         IN  IF comp = <<>> \/ comp = DOT THEN TrimLeft(Drop(s, size)) ELSE s

\* Components::trim_right: drop trailing separators and "." segments, never
\* the first `start` characters (the root, or the leading ".")
RECURSIVE TrimRight(_, _)
TrimRight(s, start) ==
    IF Len(s) <= start THEN s
    ELSE LET body == Drop(s, start)
             i == LastIndexOf(body, SEP)
             comp == Drop(body, i)
             size == Len(comp) + (IF i = 0 THEN 0 ELSE 1)
         IN  IF comp = <<>> \/ comp = DOT
             THEN TrimRight(Take(s, Len(s) - size), start)
             ELSE s

LenBeforeBody(p) == IF HasRoot(p) \/ IncludeCurDir(p) THEN 1 ELSE 0

\* the path without its last body component (Components::next_back, as_path)
DropLast(p) ==
    LET start == LenBeforeBody(p)
        s == TrimRight(p, start)
        body == Drop(s, start)
        i == LastIndexOf(body, SEP)
        size == (Len(body) - i) + (IF i = 0 THEN 0 ELSE 1)
    IN  TrimRight(Take(s, Len(s) - size), start)

\* Path::file_name: the last component when it is a normal one
FileName(p) ==
    LET comps == Components(p)
    IN  IF comps = <<>> THEN None
        ELSE LET last == comps[Len(comps)]
             IN  IF last = ROOT \/ last = DOT \/ last = DOTDOT THEN None ELSE Some(last)

\* Path::parent
Parent(p) ==
    LET comps == Components(p)
    IN  IF comps = <<>> THEN None
        ELSE IF Len(comps) = 1 /\ comps[1] = ROOT THEN None
        ELSE IF Len(comps) = 1 /\ comps[1] = DOT THEN Some(<<>>)
        ELSE Some(DropLast(p))

\* Path::join (PathBuf::push): an absolute argument replaces the base
Join(base, p) ==
    IF IsAbsolute(p) THEN p
    ELSE IF base # <<>> /\ base[Len(base)] # SEP THEN base \o <<SEP>> \o p
    ELSE base \o p

\* Path::with_file_name, for a path that has a file name
WithFileName(p, name) == Join(Parent(p).val, name)

\* what is left of a relative path after its first component
\* (Components::next, then Components::as_path)
Remainder(p) ==
    LET i == IndexOf(p, SEP)
        rest == IF i = 0 THEN <<>> ELSE Drop(p, i)
    IN  TrimRight(TrimLeft(rest), 0)

-----------------------------------------------------------------------------
(* HashMap *)

EmptyMap == [k \in {} |-> <<>>]

\* HashMap::insert: a later value replaces an earlier one under an equal key
Put(m, k, v) == [x \in (DOMAIN m) \cup {k} |-> IF x = k THEN v ELSE m[x]]

-----------------------------------------------------------------------------
(* Runfiles *)

DirectoryBased(root) == [kind |-> "DirectoryBased", root |-> root, table |-> EmptyMap]
ManifestBased(table) == [kind |-> "ManifestBased", root |-> <<>>, table |-> table]

\* the manifest loader of create_manifest_based: every line of the text is
\* split at its first space; the table is keyed by PathBuf, whose equality
\* is component-wise, so a key is held as its components
\* the loader with each line split at its last space instead of its first
RECURSIVE path_mapping_rsplit(_, _)
path_mapping_rsplit(lines, table) ==
    IF lines = <<>> THEN Ok(table)
    ELSE LET i == LastIndexOf(Head(lines), " ")
         IN  IF i = 0
             THEN Panic("manifest file contained unexpected content")
             ELSE path_mapping_rsplit(Tail(lines),
                     Put(table, Components(Take(Head(lines), i - 1)), Drop(Head(lines), i)))

RECURSIVE path_mapping(_, _)
path_mapping(lines, table) ==
    IF lines = <<>> THEN Ok(table)
    ELSE LET pair == SplitOnce(Head(lines), " ")
         IN  IF pair.tag = "None"
             THEN Panic("manifest file contained unexpected content")
             ELSE path_mapping(Tail(lines),
                               Put(table, Components(pair.val[1]), pair.val[2]))

\* the _repo_mapping loader of create: source,apparent,target per line
RECURSIVE repo_mapping(_, _)
repo_mapping(lines, table) ==
    IF lines = <<>> THEN Ok(table)
    ELSE LET triplet == SplitN(Head(lines), 3, ",")
         IN  IF Len(triplet) < 3
             THEN Panic("index out of bounds")
             ELSE repo_mapping(Tail(lines),
                               Put(table, triplet[1] \o <<",">> \o triplet[2], triplet[3]))

\* rlocation, lines 156-171: the key of the leading component and the path
\* that is resolved against the mode
repo_map_key(r, path) == r.source_repository \o <<",">> \o Components(path)[1]

\* the remapping with the whole path, not its remainder, put after the
\* mapped name
FinalPath_whole_path(r, path) ==
    LET key == repo_map_key(r, path)
    IN  IF key \in DOMAIN r.repo_mapping
        THEN Join(Join(<<>>, r.repo_mapping[key]), path)
        ELSE path

FinalPath(r, path) ==
    LET key == repo_map_key(r, path)
    IN  IF key \in DOMAIN r.repo_mapping
        THEN Join(Join(<<>>, r.repo_mapping[key]), Remainder(path))
        ELSE path

\* rlocation, lines 173-181: the mode's answer for the final path
Resolve(mode, final, path) ==
    IF mode.kind = "DirectoryBased" THEN Ok(Join(mode.root, final))
    ELSE IF Components(final) \in DOMAIN mode.table
         THEN Ok(mode.table[Components(final)])
         ELSE [tag |-> "Panic", val |-> path, why |-> "not found among runfiles"]

rlocation(r, path) ==
    IF IsAbsolute(path) THEN Ok(path)
    ELSE IF Components(path) = <<>> THEN Panic("unwrap on None")
    ELSE Resolve(r.mode, FinalPath(r, path), path)

-----------------------------------------------------------------------------
(* Calls of rlocation on a constructed object *)

MaxPathLen == 3

PathChars == {"a", "m", "/"}

\* every string over PathChars of at most n characters
RECURSIVE Strings(_)
Strings(n) ==
    IF n = 0 THEN {<<>>}
    ELSE LET shorter == Strings(n - 1)
         IN  shorter \cup {s \o <<c>> : s \in {t \in shorter : Len(t) = n - 1}, c \in PathChars}

LogicalSamples ==
    { <<"a", "/", "m">>, <<"m", "/", "m">>, <<"a", "/", "/", "m">>,
      <<".", "/", "a">>, <<"/", "a">>, <<>> }

PhysicalSamples == { <<"/", "p">>, <<"/", "p", " ", "q">>, <<>> }

ManifestLineSamples == {l \o <<" ">> \o p : l \in LogicalSamples, p \in PhysicalSamples}

\* manifests of at most two lines
ManifestSamples ==
    {<<>>} \cup {<<x>> : x \in ManifestLineSamples}
           \cup {<<x, y>> : x \in ManifestLineSamples, y \in ManifestLineSamples}

SourceRepositorySamples == { <<>>, <<"s">> }

RepoMappingLineSamples ==
    { <<",", "a", ",", "m">>, <<"s", ",", "a", ",", "m">>, <<"s", ",", "a", ",">>,
      <<",", ".", ",", "/", "m">>, <<",", "m", ",", "a", "/">> }

\* repo mappings of at most one line
RepoMappingSamples == {<<>>} \cup {<<x>> : x \in RepoMappingLineSamples}

RootSamples == { <<"/", "r">>, <<"r", "/">> }

Queries == Strings(MaxPathLen) \cup LogicalSamples

Idle ==
    /\ env = <<>> /\ fs = <<>> /\ argv0 = <<>> /\ cwd = <<>> /\ exe = <<>>
    /\ binary_path = <<>> /\ chain = <<>> /\ consulted = <<>>
    /\ found = Pending /\ bootstrap = Pending

InitRlocation ==
    /\ Idle
    /\ pc = "constructed"
    /\ query = <<>> /\ final_path = None /\ outcome = Pending
    /\ repo_mapping_content \in {JoinWith(ls, "\n") : ls \in RepoMappingSamples}
    /\ \E src \in SourceRepositorySamples :
        \/ /\ manifest_content \in {JoinWith(ls, "\n") : ls \in ManifestSamples}
           /\ runfiles =
                [mode |-> ManifestBased(path_mapping(Lines(manifest_content), EmptyMap).val),
                 repo_mapping |-> repo_mapping(Lines(repo_mapping_content), EmptyMap).val,
                 source_repository |-> src]
        \/ /\ manifest_content = <<>>
           /\ \E root \in RootSamples :
                runfiles =
                    [mode |-> DirectoryBased(root),
                     repo_mapping |-> repo_mapping(Lines(repo_mapping_content), EmptyMap).val,
                     source_repository |-> src]

\* one call r.rlocation(path) on the constructed object
rlocation_call ==
    /\ pc = "constructed"
    /\ \E path \in Queries :
        /\ query' = path
        /\ final_path' = IF IsAbsolute(path) \/ Components(path) = <<>>
                          THEN None
                          ELSE Some(FinalPath(runfiles, path))
        /\ outcome' = rlocation(runfiles, path)
    /\ pc' = "rlocation returned"
    /\ UNCHANGED <<env, fs, argv0, cwd, exe, binary_path, chain, consulted, found,
                   bootstrap, runfiles, manifest_content, repo_mapping_content>>

NextRlocation == rlocation_call

SpecRlocation == InitRlocation /\ [][NextRlocation]_vars

\* the (logical, physical) pairs of the manifest text, in file order
ManifestPairs == [i \in 1..Len(Lines(manifest_content)) |->
                    SplitOnce(Lines(manifest_content)[i], " ").val]

Returned == pc = "rlocation returned"
InManifestMode == runfiles.mode.kind = "ManifestBased"
InDirectoryMode == runfiles.mode.kind = "DirectoryBased"

\* the query has a leading segment whose key is in the repo-mapping table
Remapped ==
    /\ ~IsAbsolute(query)
    /\ Components(query) # <<>>
    /\ (runfiles.source_repository \o <<",">> \o Components(query)[1])
            \in DOMAIN runfiles.repo_mapping

\* C1 as stated: in manifest mode, for every entry (L, P) of the manifest and
\* whatever repo mapping and source repository the object holds, rlocation(L)
\* returns exactly P.  (Stated for the entries that are the last line for a
\* non-empty relative L, so that only the repo mapping is left to interfere:
\* neither the abort on the empty path, which is C6's, nor the early return
\* of an absolute path, nor a duplicated key plays a part.)
C1_RoundTripAnyMapping ==
    (Returned /\ InManifestMode /\ ~IsAbsolute(query) /\ Components(query) # <<>>) =>
        \A i \in DOMAIN ManifestPairs :
            (/\ ManifestPairs[i][1] = query
             /\ \A j \in DOMAIN ManifestPairs :
                    j > i => ~PathEq(ManifestPairs[j][1], query))
            => outcome = Ok(ManifestPairs[i][2])

\* C1 amended: in manifest mode, for every manifest line (L, P) with L relative:
\* the empty L aborts the call; otherwise, when no repo-mapping entry exists
\* for L's leading segment and no later line has a logical path equal to L,
\* rlocation(L) returns exactly P.
C1_RoundTripUnmapped ==
    (Returned /\ InManifestMode) =>
        \A i \in DOMAIN ManifestPairs :
            (ManifestPairs[i][1] = query /\ ~IsAbsolute(query)) =>
                IF Components(query) = <<>>
                THEN outcome.tag = "Panic"
                ELSE (/\ ~Remapped
                      /\ \A j \in DOMAIN ManifestPairs :
                            j > i => ~PathEq(ManifestPairs[j][1], query))
                     => outcome = Ok(ManifestPairs[i][2])

\* a manifest entry whose physical path holds a space is looked up, under a
\* non-empty repo-mapping table that does not apply to it, and found
C1_Witness ==
    /\ Returned /\ InManifestMode
    /\ runfiles.repo_mapping # EmptyMap
    /\ ~Remapped
    /\ \E i \in DOMAIN ManifestPairs :
        /\ ManifestPairs[i][1] = query
        /\ Components(query) # <<>> /\ ~IsAbsolute(query)
        /\ ManifestPairs[i][2] = <<"/", "p", " ", "q">>
        /\ outcome = Ok(ManifestPairs[i][2])

\* C2: for a relative path with leading segment A: when sourceRepository,A is
\* a key of the repo-mapping table with value M, the path resolved against the
\* mode is M followed by the remainder (the components of M, then the
\* components after A); when it is not, the path resolved is the original
\* path and the result is what the object with an empty table returns.
C2_RemapLeadingSegment ==
    (Returned /\ ~IsAbsolute(query) /\ Components(query) # <<>>) =>
        LET key == runfiles.source_repository \o <<",">> \o Components(query)[1]
        IN  IF key \in DOMAIN runfiles.repo_mapping
            THEN /\ final_path.tag = "Some"
                 /\ Components(final_path.val)
                        = Components(runfiles.repo_mapping[key]) \o Tail(Components(query))
                 /\ outcome = Resolve(runfiles.mode, final_path.val, query)
            ELSE /\ final_path = Some(query)
                 /\ outcome = rlocation([runfiles EXCEPT !.repo_mapping = EmptyMap], query)

\* a remapped lookup that hits the manifest under the canonical name
C2_Witness ==
    /\ Returned /\ InManifestMode /\ Remapped
    /\ query = <<"a", "/", "m">>
    /\ final_path = Some(<<"m", "/", "m">>)
    /\ outcome.tag = "Ok"

\* C6: in directory mode with root R, for every path L to which no remapping
\* applies, rlocation(L) returns R joined with L and never fails.
C6_DirectoryJoinNeverFails ==
    (Returned /\ InDirectoryMode /\ ~Remapped) =>
        outcome = Ok(Join(runfiles.mode.root, query))

-----------------------------------------------------------------------------
(* The filesystem and the environment *)

RUNFILES_DIR_ENV_VAR == "RUNFILES_DIR"
MANIFEST_FILE_ENV_VAR == "RUNFILES_MANIFEST_FILE"
MANIFEST_ONLY_ENV_VAR == "RUNFILES_MANIFEST_ONLY"
TEST_SRCDIR_ENV_VAR == "TEST_SRCDIR"

Dir == [kind |-> "dir", target |-> <<>>, content |-> <<>>]
File(text) == [kind |-> "file", target |-> <<>>, content |-> text]
Link(target) == [kind |-> "link", target |-> target, content |-> <<>>]

\* the kernel's view of an absolute path: its names, "." dropped and ".."
\* taken lexically (no directory of the layouts is a symlink)
RECURSIVE Walk(_, _)
Walk(comps, acc) ==
    IF comps = <<>> THEN acc
    ELSE IF Head(comps) = ROOT \/ Head(comps) = DOT THEN Walk(Tail(comps), acc)
    ELSE IF Head(comps) = DOTDOT
         THEN Walk(Tail(comps), IF acc = <<>> THEN acc ELSE Take(acc, Len(acc) - 1))
    ELSE Walk(Tail(comps), Append(acc, Head(comps)))

\* a path as the process sees it: relative paths start at the working directory
Key(p, dir) == Walk(Components(Join(dir, p)), <<>>)

\* fs::symlink_metadata: the node itself, links not followed
symlink_metadata(p) ==
    IF p # <<>> /\ Key(p, cwd) \in DOMAIN fs THEN Ok(fs[Key(p, cwd)]) ELSE Err("NotFound")

\* fs::metadata: the node after following links; a link's relative target
\* starts at the link's directory; a cycle of links is an error (ELOOP)
RECURSIVE Follow(_, _)
Follow(key, seen) ==
    IF key \notin DOMAIN fs THEN Err("NotFound")
    ELSE IF key \in seen THEN Err("FilesystemLoop")
    ELSE IF fs[key].kind # "link" THEN Ok(fs[key])
    ELSE Follow(Walk(Components(fs[key].target),
                     IF IsAbsolute(fs[key].target) THEN <<>> ELSE Take(key, Len(key) - 1)),
                seen \cup {key})

metadata(p) == IF p = <<>> THEN Err("NotFound") ELSE Follow(Key(p, cwd), {})

\* Path::is_dir, Path::exists, Path::read_link, fs::read_to_string
is_dir(p) == metadata(p).tag = "Ok" /\ metadata(p).val.kind = "dir"
exists(p) == metadata(p).tag = "Ok"
read_link(p) ==
    IF symlink_metadata(p).tag = "Ok" /\ symlink_metadata(p).val.kind = "link"
    THEN Ok(symlink_metadata(p).val.target)
    ELSE Err("InvalidInput")
read_to_string(p) ==
    IF metadata(p).tag # "Ok" THEN Err(metadata(p).why)
    ELSE IF metadata(p).val.kind = "dir" THEN Err("IsADirectory")
    ELSE Ok(metadata(p).val.content)

\* std::env::var_os
var_os(name) == env[name]

-----------------------------------------------------------------------------
(* find_runfiles_dir *)

RUNFILES_SUFFIX == <<".", "r", "u", "n", "f", "i", "l", "e", "s">>

\* lines 228-237: the nearest ancestor whose own name ends with ".runfiles"
RECURSIVE runfiles_ancestor(_)
runfiles_ancestor(next) ==
    IF next.tag = "None" THEN None
    ELSE IF FileName(next.val).tag = "Some" /\ EndsWith(FileName(next.val).val, RUNFILES_SUFFIX)
         THEN Some(next.val)
         ELSE runfiles_ancestor(Parent(next.val))

\* lines 217-220: the sibling "<file name>.runfiles" of a candidate
runfiles_path(candidate) ==
    WithFileName(candidate, FileName(candidate).val \o RUNFILES_SUFFIX)

\* the link resolved with a relative target taken from the working
\* directory, not from the directory of the link
link_target_from_cwd(candidate) ==
    LET target == read_link(candidate).val
    IN  IF IsAbsolute(target) THEN target ELSE Join(cwd, target)

\* lines 244-250: the candidate one link level further
link_target(candidate) ==
    LET target == read_link(candidate).val
    IN  IF IsAbsolute(target) THEN target
        ELSE Join(Join(cwd, Parent(candidate).val), target)

FindFrame == <<env, fs, argv0, cwd, exe, bootstrap, runfiles, manifest_content,
               repo_mapping_content, query, final_path, outcome>>

\* the overrides asked in the other order, TEST_SRCDIR first
override_dir_test_srcdir_first ==
    IF var_os(TEST_SRCDIR_ENV_VAR).tag = "Some" /\ is_dir(var_os(TEST_SRCDIR_ENV_VAR).val)
    THEN [dir |-> var_os(TEST_SRCDIR_ENV_VAR), read |-> <<TEST_SRCDIR_ENV_VAR>>]
    ELSE IF var_os(RUNFILES_DIR_ENV_VAR).tag = "Some" /\ is_dir(var_os(RUNFILES_DIR_ENV_VAR).val)
    THEN [dir |-> var_os(RUNFILES_DIR_ENV_VAR),
          read |-> <<TEST_SRCDIR_ENV_VAR, RUNFILES_DIR_ENV_VAR>>]
    ELSE [dir |-> None, read |-> <<TEST_SRCDIR_ENV_VAR, RUNFILES_DIR_ENV_VAR>>]

\* lines 200-209: the first override, in the order the code asks, that names
\* an existing directory, with the variables read on the way
override_dir ==
    IF var_os(RUNFILES_DIR_ENV_VAR).tag = "Some" /\ is_dir(var_os(RUNFILES_DIR_ENV_VAR).val)
    THEN [dir |-> var_os(RUNFILES_DIR_ENV_VAR), read |-> <<RUNFILES_DIR_ENV_VAR>>]
    ELSE IF var_os(TEST_SRCDIR_ENV_VAR).tag = "Some" /\ is_dir(var_os(TEST_SRCDIR_ENV_VAR).val)
    THEN [dir |-> var_os(TEST_SRCDIR_ENV_VAR),
          read |-> <<RUNFILES_DIR_ENV_VAR, TEST_SRCDIR_ENV_VAR>>]
    ELSE [dir |-> None, read |-> <<RUNFILES_DIR_ENV_VAR, TEST_SRCDIR_ENV_VAR>>]

\* lines 194-214: the assertion, the two overrides, then argv[0]
find_runfiles_dir_overrides ==
    /\ pc = "find_runfiles_dir"
    /\ IF var_os(MANIFEST_ONLY_ENV_VAR) = Some(<<"1">>)
       THEN /\ found' = Panic("assert_ne")
            /\ pc' = "find returned"
            /\ UNCHANGED <<binary_path, chain, consulted>>
       ELSE IF override_dir.dir.tag = "Some"
       THEN /\ found' = Ok(override_dir.dir.val)
            /\ consulted' = override_dir.read
            /\ pc' = "find returned"
            /\ UNCHANGED <<binary_path, chain>>
       ELSE /\ binary_path' = argv0
            /\ consulted' = Append(override_dir.read, "argv0")
            /\ pc' = "discovery"
            /\ UNCHANGED <<found, chain>>
    /\ UNCHANGED FindFrame

\* lines 215-251: one iteration of the discovery loop
discovery_iteration ==
    /\ pc = "discovery"
    /\ chain' = IF \E i \in DOMAIN chain : chain[i] = binary_path
                THEN chain
                ELSE Append(chain, binary_path)
    /\ IF FileName(binary_path).tag = "None"
       THEN /\ found' = Panic("unwrap on None")
            /\ pc' = "find returned"
            /\ UNCHANGED binary_path
       ELSE IF is_dir(runfiles_path(binary_path))
       THEN /\ found' = Ok(runfiles_path(binary_path))
            /\ pc' = "find returned"
            /\ UNCHANGED binary_path
       ELSE IF runfiles_ancestor(Parent(binary_path)).tag = "Some"
       THEN /\ found' = Ok(runfiles_ancestor(Parent(binary_path)).val)
            /\ pc' = "find returned"
            /\ UNCHANGED binary_path
       ELSE IF symlink_metadata(binary_path).tag = "Err"
       THEN /\ found' = Err(symlink_metadata(binary_path).why)
            /\ pc' = "find returned"
            /\ UNCHANGED binary_path
       ELSE IF symlink_metadata(binary_path).val.kind # "link"
       THEN /\ found' = Err("failed to find .runfiles directory")
            /\ pc' = "find returned"
            /\ UNCHANGED binary_path
       ELSE /\ binary_path' = link_target(binary_path)
            /\ UNCHANGED <<found, pc>>
    /\ UNCHANGED consulted
    /\ UNCHANGED FindFrame

NextFind == find_runfiles_dir_overrides \/ discovery_iteration

-----------------------------------------------------------------------------
(* Calls of find_runfiles_dir under varied layouts *)

P_d_a == <<"/", "d", "/", "a">>
P_d_b == <<"/", "d", "/", "b">>
P_d_c == <<"/", "d", "/", "c">>
P_x_e == <<"/", "x">> \o RUNFILES_SUFFIX \o <<"/", "e">>

N_d == <<"d">>
N_a == <<"a">>
N_b == <<"b">>
N_c == <<"c">>
N_e == <<"e">>
N_r == <<"r">>
N_t == <<"t">>
N_x_runfiles == <<"x">> \o RUNFILES_SUFFIX

\* the directories every layout has: /, /d, /r, /t, /x.runfiles and the
\* file /x.runfiles/e
BaseLayout ==
    ( <<>> :> Dir ) @@ ( <<N_d>> :> Dir ) @@ ( <<N_r>> :> Dir ) @@ ( <<N_t>> :> Dir )
    @@ ( <<N_x_runfiles>> :> Dir ) @@ ( <<N_x_runfiles, N_e>> :> File(<<>>) )

Absent == [kind |-> "absent", target |-> <<>>, content |-> <<>>]

\* a layout with the nodes of `more` added, the absent ones left out
WithNodes(base, more) ==
    [k \in (DOMAIN base) \cup {x \in DOMAIN more : more[x].kind # "absent"} |->
        IF k \in DOMAIN more /\ more[k].kind # "absent" THEN more[k] ELSE base[k]]

NodeA == { File(<<>>), Link(P_d_b), Link(N_b) }
NodeB == { Absent, File(<<>>), Link(P_d_c), Link(N_c), Link(P_d_a), Link(P_x_e),
           Link(DOTDOT) }
NodeC == { Absent, File(<<>>), Link(P_d_a) }
MaybeDir == { Absent, Dir }

FindLayouts ==
    { WithNodes(BaseLayout,
          ( <<N_d, N_a>> :> a ) @@ ( <<N_d, N_b>> :> b ) @@ ( <<N_d, N_c>> :> c )
          @@ ( <<N_d, N_a \o RUNFILES_SUFFIX>> :> ra )
          @@ ( <<N_d, N_b \o RUNFILES_SUFFIX>> :> rb )
          @@ ( <<N_d, N_c \o RUNFILES_SUFFIX>> :> rc )
          @@ ( <<N_x_runfiles, N_e \o RUNFILES_SUFFIX>> :> re ))
      : a \in NodeA, b \in NodeB, c \in NodeC,
        ra \in MaybeDir, rb \in MaybeDir, rc \in MaybeDir, re \in MaybeDir }

FindEnvs ==
    { ( RUNFILES_DIR_ENV_VAR :> rd ) @@ ( TEST_SRCDIR_ENV_VAR :> ts )
      @@ ( MANIFEST_ONLY_ENV_VAR :> mo ) @@ ( MANIFEST_FILE_ENV_VAR :> None )
      : rd \in { None, Some(<<"/", "r">>), Some(<<"/", "n">>) },
        ts \in { None, Some(<<"/", "t">>), Some(P_d_a) },
        mo \in { None, Some(<<"1">>) } }

FindArgv0 == { P_d_a, <<"d", "/", "a">>, P_x_e }

InitFind ==
    /\ pc = "find_runfiles_dir"
    /\ env \in FindEnvs
    /\ fs \in FindLayouts
    /\ argv0 \in FindArgv0
    /\ cwd = <<"/">>
    /\ exe = <<>>
    /\ binary_path = <<>> /\ chain = <<>> /\ consulted = <<>> /\ found = Pending
    /\ bootstrap = Pending /\ runfiles = Pending
    /\ manifest_content = <<>> /\ repo_mapping_content = <<>>
    /\ query = <<>> /\ final_path = None /\ outcome = Pending

SpecFind == InitFind /\ [][NextFind]_vars

AssertPassed == var_os(MANIFEST_ONLY_ENV_VAR) # Some(<<"1">>)
FindReturned == pc = "find returned"

NamesDir(v) == v.tag = "Some" /\ is_dir(v.val)

\* C5: find_runfiles_dir applies a fixed priority order.  When RUNFILES_DIR
\* names an existing directory it is returned and nothing else is consulted,
\* TEST_SRCDIR included; otherwise, when TEST_SRCDIR names an existing
\* directory, that is returned; the discovery from argv[0] runs only when
\* neither does.  With only the first set, only the second set, or neither
\* (and a runfiles directory beside the invoking path), a root is returned.
C5_OverridePriority ==
    (AssertPassed /\ pc # "find_runfiles_dir") =>
        /\ NamesDir(var_os(RUNFILES_DIR_ENV_VAR)) =>
              /\ FindReturned
              /\ found = Ok(var_os(RUNFILES_DIR_ENV_VAR).val)
              /\ consulted = <<RUNFILES_DIR_ENV_VAR>>
              /\ chain = <<>>
        /\ (~NamesDir(var_os(RUNFILES_DIR_ENV_VAR)) /\ NamesDir(var_os(TEST_SRCDIR_ENV_VAR))) =>
              /\ FindReturned
              /\ found = Ok(var_os(TEST_SRCDIR_ENV_VAR).val)
              /\ consulted = <<RUNFILES_DIR_ENV_VAR, TEST_SRCDIR_ENV_VAR>>
              /\ chain = <<>>
        /\ ("argv0" \in {consulted[i] : i \in DOMAIN consulted} \/ chain # <<>>) =>
              /\ ~NamesDir(var_os(RUNFILES_DIR_ENV_VAR))
              /\ ~NamesDir(var_os(TEST_SRCDIR_ENV_VAR))
        /\ (~NamesDir(var_os(RUNFILES_DIR_ENV_VAR)) /\ ~NamesDir(var_os(TEST_SRCDIR_ENV_VAR))) =>
              /\ consulted = <<RUNFILES_DIR_ENV_VAR, TEST_SRCDIR_ENV_VAR, "argv0">>
              /\ (FindReturned /\ is_dir(runfiles_path(argv0))) =>
                    found = Ok(runfiles_path(argv0))

\* both overrides name existing directories and the first one is returned
C5_Witness ==
    /\ FindReturned
    /\ NamesDir(var_os(RUNFILES_DIR_ENV_VAR))
    /\ NamesDir(var_os(TEST_SRCDIR_ENV_VAR))
    /\ var_os(RUNFILES_DIR_ENV_VAR) # var_os(TEST_SRCDIR_ENV_VAR)
    /\ found = Ok(var_os(RUNFILES_DIR_ENV_VAR).val)

\* C7: the discovery loop always terminates: whatever the layout and the
\* invoking path, an iteration returns, fails, or advances to a new
\* candidate, so the candidate about to be examined was never examined
\* before (and the loop cannot follow symlinks forever).
C7_AdvancesToNewCandidate ==
    pc = "discovery" => \A i \in DOMAIN chain : chain[i] # binary_path

\* a candidate has a runfiles directory: the sibling, else the nearest
\* ".runfiles" ancestor
HasSibling(c) == FileName(c).tag = "Some" /\ is_dir(runfiles_path(c))
HasAncestor(c) == FileName(c).tag = "Some" /\ runfiles_ancestor(Parent(c)).tag = "Some"
IsSymlink(c) == symlink_metadata(c).tag = "Ok" /\ symlink_metadata(c).val.kind = "link"

\* the file one link level after the symlink c, as the kernel names it: an
\* absolute target as it is, a relative one from the directory of the link
OneLevel(c) ==
    LET t == symlink_metadata(c).val.target
    IN  Walk(Components(t),
             IF IsAbsolute(t) THEN <<>> ELSE Take(Key(c, cwd), Len(Key(c, cwd)) - 1))

\* C8: the discovery examines the invoking path first; each later candidate
\* is exactly one link level after the one before, which was a symlink with
\* neither a sibling "<basename>.runfiles" directory nor a ".runfiles"
\* ancestor.  A directory is returned for the first candidate that has one,
\* the sibling before the nearest ancestor, and the discovery fails only at a
\* candidate that is not a symlink and has neither.
C8_ChainOrder ==
    (chain # <<>>) =>
        LET last == chain[Len(chain)]
        IN  /\ chain[1] = argv0
            /\ \A i \in 1..(Len(chain) - 1) :
                  /\ ~HasSibling(chain[i]) /\ ~HasAncestor(chain[i])
                  /\ IsSymlink(chain[i])
                  /\ Key(chain[i + 1], cwd) = OneLevel(chain[i])
            /\ (FindReturned /\ found.tag = "Ok") =>
                  /\ HasSibling(last) \/ HasAncestor(last)
                  /\ HasSibling(last) => found.val = runfiles_path(last)
                  /\ ~HasSibling(last) => found.val = runfiles_ancestor(Parent(last)).val
            /\ (FindReturned /\ found.tag = "Err") =>
                  /\ ~IsSymlink(last)
                  /\ ~HasSibling(last) /\ ~HasAncestor(last)
            /\ (FindReturned /\ (HasSibling(last) \/ HasAncestor(last))) =>
                  found.tag = "Ok"

\* the invoking path is a symlink to a symlink that sits beside b.runfiles
C8_Witness ==
    /\ FindReturned
    /\ Len(chain) = 2
    /\ chain[1] = <<"d", "/", "a">>
    /\ IsSymlink(chain[1]) /\ ~IsAbsolute(symlink_metadata(chain[1]).val.target)
    /\ IsSymlink(chain[2])
    /\ found = Ok(<<"/", "d", "/", "b">> \o RUNFILES_SUFFIX)

-----------------------------------------------------------------------------
(* get_source_repository *)

S_bazel_out == <<"b", "a", "z", "e", "l", "-", "o", "u", "t">>
S_bin == <<"b", "i", "n">>
S_external == <<"e", "x", "t", "e", "r", "n", "a", "l">>

\* [^/]+ : the longest run of characters other than "/" at the start of s
NonSlashRun(s) == IF IndexOf(s, SEP) = 0 THEN s ELSE Take(s, IndexOf(s, SEP) - 1)

\* "^external/([^/]+)/": the capture, when the text matches at its start
EXTERNAL_FILE_REGEX(s) ==
    LET head == S_external \o <<SEP>>
        rest == Drop(s, Len(head))
        repo == NonSlashRun(rest)
    IN  IF StartsWith(s, head) /\ repo # <<>> /\ StartsWith(Drop(rest, Len(repo)), <<SEP>>)
        THEN Some(repo)
        ELSE None

\* "^bazel-out[/][^/]+/bin/external/([^/]+)/"
EXTERNAL_GENERATED_FILE_REGEX(s) ==
    LET head == S_bazel_out \o <<SEP>>
        rest == Drop(s, Len(head))
        config == NonSlashRun(rest)
        middle == <<SEP>> \o S_bin \o <<SEP>>
        tail == Drop(rest, Len(config))
    IN  IF StartsWith(s, head) /\ config # <<>> /\ StartsWith(tail, middle)
        THEN EXTERNAL_FILE_REGEX(Drop(tail, Len(middle)))
        ELSE None

\* lines 102-115: the first pattern's capture, else the second's, else ""
get_source_repository(caller) ==
    IF EXTERNAL_GENERATED_FILE_REGEX(caller).tag = "Some"
    THEN EXTERNAL_GENERATED_FILE_REGEX(caller).val
    ELSE IF EXTERNAL_FILE_REGEX(caller).tag = "Some"
    THEN EXTERNAL_FILE_REGEX(caller).val
    ELSE <<>>

-----------------------------------------------------------------------------
(* create *)

REPO_MAPPING_NAME == <<"_", "r", "e", "p", "o", "_", "m", "a", "p", "p", "i", "n", "g">>

\* lines 260-265
is_manifest_only == var_os(MANIFEST_ONLY_ENV_VAR) = Some(<<"1">>)

\* lines 267-278 (the assertion holds where create calls it)
find_manifest_path ==
    IF var_os(MANIFEST_FILE_ENV_VAR).tag = "Some"
    THEN Ok(var_os(MANIFEST_FILE_ENV_VAR).val)
    ELSE Err("RUNFILES_MANIFEST_FILE was not set")

NewRunfiles(mode, mapping) ==
    [mode |-> mode, repo_mapping |-> mapping,
     source_repository |-> get_source_repository(exe)]

CreateFrame == <<env, fs, argv0, cwd, exe, binary_path, chain, consulted, found,
                 runfiles, query, final_path>>

\* lines 67-71: the mode is chosen once
create_begin ==
    /\ pc = "create"
    /\ pc' = IF is_manifest_only THEN "create_manifest_based" ELSE "find_runfiles_dir"
    /\ UNCHANGED <<CreateFrame, bootstrap, manifest_content, repo_mapping_content, outcome>>

\* the result of create_manifest_based for the manifest text, lines 128-141
manifest_based(text) ==
    LET table == path_mapping(Lines(text), EmptyMap)
    IN  IF table.tag = "Ok" THEN Ok(NewRunfiles(ManifestBased(table.val), EmptyMap))
        ELSE table

\* lines 125-142
create_manifest_based ==
    /\ pc = "create_manifest_based"
    /\ IF find_manifest_path.tag = "Err"
       THEN bootstrap' = find_manifest_path /\ UNCHANGED manifest_content
       ELSE IF read_to_string(find_manifest_path.val).tag = "Err"
       THEN bootstrap' = read_to_string(find_manifest_path.val) /\ UNCHANGED manifest_content
       ELSE /\ manifest_content' = read_to_string(find_manifest_path.val).val
            /\ bootstrap' = manifest_based(manifest_content')
    /\ pc' = "bootstrapped"
    /\ UNCHANGED <<CreateFrame, repo_mapping_content, outcome>>

\* lines 117-123, once find_runfiles_dir has returned
create_directory_based ==
    /\ pc = "find returned"
    /\ bootstrap' = IF found.tag = "Ok"
                    THEN Ok(NewRunfiles(DirectoryBased(found.val), EmptyMap))
                    ELSE found
    /\ pc' = "bootstrapped"
    /\ UNCHANGED <<CreateFrame, manifest_content, repo_mapping_content, outcome>>

\* the result of the closure of lines 73-99 for the bootstrap object r
with_repo_mapping(r) ==
    LET repo_mapping_file == rlocation(r, REPO_MAPPING_NAME)
    IN  IF repo_mapping_file.tag = "Panic" THEN repo_mapping_file
        ELSE IF ~exists(repo_mapping_file.val)
        THEN Ok([r EXCEPT !.repo_mapping = EmptyMap])
        ELSE IF read_to_string(repo_mapping_file.val).tag = "Err"
        THEN Panic("failed to read _repo_mapping file")
        ELSE LET table == repo_mapping(Lines(read_to_string(repo_mapping_file.val).val),
                                       EmptyMap)
             IN  IF table.tag = "Ok" THEN Ok([r EXCEPT !.repo_mapping = table.val])
                 ELSE table

\* lines 73-99: an error passes through, an object gets its repo mapping
create_repo_mapping ==
    /\ pc = "bootstrapped"
    /\ outcome' = IF bootstrap.tag = "Ok" THEN with_repo_mapping(bootstrap.val) ELSE bootstrap
    /\ repo_mapping_content' =
            IF /\ bootstrap.tag = "Ok"
               /\ rlocation(bootstrap.val, REPO_MAPPING_NAME).tag = "Ok"
               /\ read_to_string(rlocation(bootstrap.val, REPO_MAPPING_NAME).val).tag = "Ok"
            THEN read_to_string(rlocation(bootstrap.val, REPO_MAPPING_NAME).val).val
            ELSE repo_mapping_content
    /\ pc' = "create returned"
    /\ UNCHANGED <<CreateFrame, bootstrap, manifest_content>>

NextCreate ==
    \/ create_begin
    \/ create_manifest_based
    \/ find_runfiles_dir_overrides
    \/ discovery_iteration
    \/ create_directory_based
    \/ create_repo_mapping

-----------------------------------------------------------------------------
(* Calls of create under varied manifests, repo mappings and layouts *)

MaxManifestLines == 2
MaxMappingLines == 2

\* the sequences of at most n members of S
RECURSIVE SeqsUpTo(_, _)
SeqsUpTo(S, n) ==
    IF n = 0 THEN {<<>>}
    ELSE LET shorter == SeqsUpTo(S, n - 1)
         IN  shorter \cup {Append(q, x) : q \in {t \in shorter : Len(t) = n - 1}, x \in S}

P_m == <<"/", "m">>
P_rm == <<"/", "r", "m">>
P_nf == <<"/", "n", "f">>

CreateManifestLines ==
    { <<"a", " ", "/", "p">>, <<"a", " ", "/", "p", " ", "q">>, <<>>, <<"x">>,
      REPO_MAPPING_NAME \o <<" ">> \o P_rm, REPO_MAPPING_NAME \o <<" ">> \o P_nf }

\* a text of lines, with or without the newline after the last one
Texts(lineSets) ==
    {JoinWith(ls, "\n") : ls \in lineSets}
        \cup {JoinWith(ls, "\n") \o <<"\n">> : ls \in lineSets \ {<<>>}}

CreateManifestTexts == Texts(SeqsUpTo(CreateManifestLines, MaxManifestLines))

CreateMappingLines ==
    { <<"s", ",", "a", ",", "m">>, <<",", "a", ",", "m">>, <<"a", ",", "b">>,
      <<"s", ",", "a", ",", "m", ",", "x">> }

CreateMappingTexts == {JoinWith(ls, "\n") : ls \in SeqsUpTo(CreateMappingLines, MaxMappingLines)}

\* what may sit at a path that is read as a text file
FileStates(texts) == {Absent, Dir} \cup {File(t) : t \in texts}

ExeSamples ==
    { <<"/", "w", "/", "t">>,
      <<"/", "w", "/">> \o S_bazel_out \o <<"/", "k", "/">> \o S_bin \o <<"/">>
          \o S_external \o <<"/", "s", "/", "t">> }

EnvOf(rd, ts, mo, mf) ==
    ( RUNFILES_DIR_ENV_VAR :> rd ) @@ ( TEST_SRCDIR_ENV_VAR :> ts )
    @@ ( MANIFEST_ONLY_ENV_VAR :> mo ) @@ ( MANIFEST_FILE_ENV_VAR :> mf )

\* manifest-only runs: the manifest at /m, the repo mapping at /rm
InitCreateManifest ==
    /\ env \in {EnvOf(None, None, Some(<<"1">>), mf) : mf \in {None, Some(P_m)}}
    /\ fs \in { WithNodes(BaseLayout, ( <<<<"m">>>> :> m ) @@ ( <<<<"r", "m">>>> :> rm ))
                 : m \in FileStates(CreateManifestTexts),
                   rm \in FileStates(CreateMappingTexts) }
    /\ argv0 = P_d_a

\* directory runs: the root from RUNFILES_DIR (/r) or from the discovery
\* (/d/b.runfiles), the repo mapping at /r/_repo_mapping
InitCreateDirectory ==
    /\ env \in {EnvOf(rd, None, mo, None) : rd \in {None, Some(<<"/", "r">>)},
                                             mo \in {None, Some(<<"0">>)}}
    /\ fs \in { WithNodes(BaseLayout,
                     ( <<N_d, N_a>> :> a ) @@ ( <<N_d, N_b>> :> b )
                     @@ ( <<N_d, N_b \o RUNFILES_SUFFIX>> :> rb )
                     @@ ( <<N_r, REPO_MAPPING_NAME>> :> rm ))
                 : a \in {File(<<>>), Link(N_b)}, b \in {Absent, File(<<>>)},
                   rb \in MaybeDir, rm \in FileStates(CreateMappingTexts) }
    /\ argv0 = P_d_a

InitCreate ==
    /\ pc = "create"
    /\ InitCreateManifest \/ InitCreateDirectory
    /\ cwd = <<"/">>
    /\ exe \in ExeSamples
    /\ binary_path = <<>> /\ chain = <<>> /\ consulted = <<>> /\ found = Pending
    /\ bootstrap = Pending /\ runfiles = Pending
    /\ manifest_content = <<>> /\ repo_mapping_content = <<>>
    /\ query = <<>> /\ final_path = None /\ outcome = Pending

SpecCreate == InitCreate /\ [][NextCreate]_vars

CreateReturned == pc = "create returned"

\* where the bootstrap object places the _repo_mapping file, if anywhere
RepoMappingFile == rlocation(bootstrap.val, REPO_MAPPING_NAME)

\* no _repo_mapping file exists: the manifest has no entry for it, or the
\* place the mode gives for it holds nothing
NoRepoMappingFile == RepoMappingFile.tag # "Ok" \/ ~exists(RepoMappingFile.val)

\* C3: in both modes, when the bootstrap object is built and no _repo_mapping
\* file exists (a manifest without a _repo_mapping entry included), create
\* completes and returns an object whose repo-mapping table is empty.
C3_AbsentRepoMappingIsNormal ==
    (CreateReturned /\ bootstrap.tag = "Ok" /\ NoRepoMappingFile) =>
        /\ outcome.tag = "Ok"
        /\ outcome.val.repo_mapping = EmptyMap

\* C4: an I/O failure while reading the manifest file or the repo-mapping
\* file makes create return the error result carrying that I/O error,
\* neither aborting nor returning an object.
C4_ReadFailurePropagates ==
    CreateReturned =>
        /\ (/\ is_manifest_only /\ find_manifest_path.tag = "Ok"
            /\ read_to_string(find_manifest_path.val).tag = "Err")
              => outcome = read_to_string(find_manifest_path.val)
        /\ (/\ bootstrap.tag = "Ok" /\ RepoMappingFile.tag = "Ok"
            /\ exists(RepoMappingFile.val)
            /\ read_to_string(RepoMappingFile.val).tag = "Err")
              => outcome = read_to_string(RepoMappingFile.val)

\* the table the claim describes: one entry per non-empty line, split at the
\* first space, a later line replacing an earlier one with an equal key
RECURSIVE EntriesOfNonEmptyLines(_, _)
EntriesOfNonEmptyLines(lines, table) ==
    IF lines = <<>> THEN table
    ELSE IF Head(lines) = <<>> THEN EntriesOfNonEmptyLines(Tail(lines), table)
    ELSE LET i == IndexOf(Head(lines), " ")
         IN  EntriesOfNonEmptyLines(Tail(lines),
                 Put(table, Components(Take(Head(lines), i - 1)), Drop(Head(lines), i)))

ManifestWasRead ==
    /\ pc \in {"bootstrapped", "create returned"}
    /\ is_manifest_only /\ find_manifest_path.tag = "Ok"
    /\ read_to_string(find_manifest_path.val).tag = "Ok"

\* C9: loading gives one table entry per non-empty line, split at the first
\* space (so the physical path may hold spaces); empty lines add no entry and
\* do not make loading fail; a non-empty line without a space is fatal.
C9_ManifestLoading ==
    ManifestWasRead =>
        LET lines == Lines(manifest_content)
            fatal == \E i \in DOMAIN lines : lines[i] # <<>> /\ IndexOf(lines[i], " ") = 0
        IN  IF fatal
            THEN bootstrap.tag = "Panic"
            ELSE /\ bootstrap.tag = "Ok"
                 /\ bootstrap.val.mode.table = EntriesOfNonEmptyLines(lines, EmptyMap)

-----------------------------------------------------------------------------
(* Calls of get_source_repository under varied executable paths *)

MaxExeSegments == 6

ExeSegments == { S_bazel_out, S_bin, S_external, <<"s">> }

ExePaths ==
    {JoinWith(q, SEP) : q \in SeqsUpTo(ExeSegments, MaxExeSegments) \ {<<>>}}
        \cup {<<SEP>> \o JoinWith(q, SEP) : q \in SeqsUpTo(ExeSegments, MaxExeSegments) \ {<<>>}}

InitSource ==
    /\ pc = "get_source_repository"
    /\ exe \in ExePaths
    /\ env = <<>> /\ fs = <<>> /\ argv0 = <<>> /\ cwd = <<>>
    /\ binary_path = <<>> /\ chain = <<>> /\ consulted = <<>>
    /\ found = Pending /\ bootstrap = Pending /\ runfiles = Pending
    /\ manifest_content = <<>> /\ repo_mapping_content = <<>>
    /\ query = <<>> /\ final_path = None /\ outcome = Pending

get_source_repository_call ==
    /\ pc = "get_source_repository"
    /\ outcome' = Ok(get_source_repository(exe))
    /\ pc' = "get_source_repository returned"
    /\ UNCHANGED <<env, fs, argv0, cwd, exe, binary_path, chain, consulted, found,
                   bootstrap, runfiles, manifest_content, repo_mapping_content,
                   query, final_path>>

NextSource == get_source_repository_call

SpecSource == InitSource /\ [][NextSource]_vars

\* the index of the repository name in an absolute path that holds
\* .../bazel-out/<config>/bin/external/<repoName>/..., 0 when it holds none
BuildOutputRepoAt(segs) ==
    LET hits == {i \in 1..(Len(segs) - 5) :
                    /\ segs[i] = S_bazel_out /\ segs[i + 1] # <<>>
                    /\ segs[i + 2] = S_bin /\ segs[i + 3] = S_external
                    /\ segs[i + 4] # <<>>}
    IN  IF hits = {} THEN 0 ELSE (CHOOSE i \in hits : \A j \in hits : i <= j) + 4

\* C10: the executable's absolute path is matched against the build-output
\* form .../bin/external/<repoName>/... and then the source-tree form; in
\* particular an executable whose absolute path holds
\* bin/external/<repoName>/ gets the source repository <repoName>.
C10_SourceRepositoryOfAbsolutePath ==
    (pc = "get_source_repository returned" /\ IsAbsolute(exe)) =>
        LET segs == Split(exe, SEP)
        IN  BuildOutputRepoAt(segs) # 0 => outcome = Ok(segs[BuildOutputRepoAt(segs)])

====
